---- MODULE Spec2Model ----
(***************************************************************************)
(* Generalized Glossing Guidelines: the BILOU encoder (bin/ggg2bilou.py)   *)
(* and the validator (bin/validate_ggg.py).                                *)
(*                                                                         *)
(* A line of text is a sequence of one-character strings.  The grammars    *)
(* (parsy combinators in the source) are operators that take a line and a  *)
(* 1-based position and return [ok, i, v]: success, the position after the *)
(* match, and the value built.                                             *)
(***************************************************************************)
EXTENDS Integers, Sequences, FiniteSets, TLC

VARIABLES
    \* parse_ur (ggg2bilou.py)
    ur,            \* the UR line given to parse_ur
    parts,         \* ur.split(" ")
    morphs,        \* the list built by the comprehension of line 77
    mi,            \* index of the for loop of line 78
    matrix_num,    \* state of the generator `matrix` of parse_ur
    ur_chars,      \* the accumulator ur_chars
    last_typ,      \* last_typ
    pc,            \* position in parse_ur / merged_form_gloss
    outcome,       \* "running", "returned" or the exception that left the call
    entry,         \* the function called: "parse_ur" or "merged_form_gloss"
    \* merged_form_gloss (ggg2bilou.py)
    gloss,         \* the gloss line given to merged_form_gloss
    gl,            \* parse_gloss(gloss)
    offset,        \* offset
    span_glosses,  \* the dict span_glosses, a function on its keys
    gmi,           \* index `matrix` of the for loop of line 120
    gpi,           \* index of the for loop of line 122
    si,            \* index of the for loop of line 133
    binds,         \* the assignments to span_glosses made by lines 126 and 130
    \* validate_segs (validate_ggg.py)
    seg_id,        \* index of the for loop of line 167
    seg,           \* the record doc["segs"][seg_id]
    v_ur, v_sr, v_gl,  \* the three parses of the record
    token_id,      \* index of the for loop of line 182
    vpc,           \* position in validate_segs
    error,         \* the exception raised by validate_segs, or "none"
    checks,        \* the checks evaluated on the current record, in order
    \* the two gloss grammars applied to one line
    g_line,        \* the gloss line
    g_val,         \* validate_ggg.gloss.parse(g_line)
    g_bilou        \* ggg2bilou.parse_gloss(g_line)

urVars    == <<ur, parts, morphs, mi, matrix_num, ur_chars, last_typ, pc, outcome, entry>>
mergeVars == <<gloss, gl, offset, span_glosses, gmi, gpi, si, binds>>
valVars   == <<seg_id, seg, v_ur, v_sr, v_gl, token_id, vpc, error, checks>>
glossVars == <<g_line, g_val, g_bilou>>
vars      == <<urVars, mergeVars, valVars, glossVars>>

----------------------------------------------------------------------------
(* Bounds of the model *)

\* pieces concatenated into one UR line given to parse_ur
MaxUrPieces == 4
\* morphs of the form and of the gloss given to merged_form_gloss
MaxMergeMorphs == 2
\* pieces concatenated into one gloss line given to the two gloss grammars
MaxGlossPieces == 4
\* morphs of each line of a record given to validate_segs
MaxTokens == 2
\* records of the document given to validate_segs
MaxSegs == 2

----------------------------------------------------------------------------
(* Sequences of characters *)

SeqsUpTo(S, n) == UNION {[1..k -> S] : k \in 0..n}

RECURSIVE Flatten(_)
Flatten(ss) == IF ss = <<>> THEN <<>> ELSE Head(ss) \o Flatten(Tail(ss))

Last(s) == s[Len(s)]

RECURSIVE CountIn(_, _)
\* number of elements of s that are in the set S
CountIn(s, S) ==
    IF s = <<>> THEN 0
    ELSE (IF Head(s) \in S THEN 1 ELSE 0) + CountIn(Tail(s), S)

RECURSIVE Split(_)
\* str.split(" "): cut at every single space; "" gives [""]
Split(s) ==
    IF \A k \in 1..Len(s) : s[k] # " " THEN <<s>>
    ELSE LET k == CHOOSE k \in 1..Len(s) :
                     s[k] = " " /\ \A j \in 1..(k-1) : s[j] # " "
         IN <<SubSeq(s, 1, k-1)>> \o Split(SubSeq(s, k+1, Len(s)))

RECURSIVE JoinWith(_, _)
\* sep.join(ss)
JoinWith(ss, sep) ==
    IF ss = <<>> THEN <<>>
    ELSE IF Len(ss) = 1 THEN ss[1]
    ELSE ss[1] \o sep \o JoinWith(Tail(ss), sep)

----------------------------------------------------------------------------
(* parsy results and combinators *)

Ok(i, v) == [ok |-> TRUE, i |-> i, v |-> v]
Fail     == [ok |-> FALSE, i |-> 0, v |-> <<>>]

\* string(c) matches at position i of s
Lit(s, i, c) == i <= Len(s) /\ s[i] = c

\* a | b
OrElse(a, b) == IF a.ok THEN a ELSE b

\* string(c) >> p, r the result of p at i + 1
LitThen(s, i, c, r) == IF Lit(s, i, c) /\ r.ok THEN r ELSE Fail

\* p << string(c), r the result of p
ThenLit(r, s, c) == IF r.ok /\ Lit(s, r.i, c) THEN Ok(r.i + 1, r.v) ELSE Fail

\* p.map(lambda x: (t, x))
Tagged(t, r) == IF r.ok THEN Ok(r.i, <<t, r.v>>) ELSE Fail

\* seq(p, q) with x the value of p and r the result of q
Pair(x, r) == IF r.ok THEN Ok(r.i, <<x, r.v>>) ELSE Fail

\* the value x of one more match put before the values of the following ones
Prepend(x, rest) == Ok(rest.i, <<x>> \o rest.v)

\* p.at_least(1), r the result of p.many()
AtLeastOne(r) == IF Len(r.v) >= 1 THEN r ELSE Fail

RECURSIVE RunEndNot(_, _, _)
\* position after the longest run, from i, of characters outside X: regex("[^X]*")
RunEndNot(s, i, X) ==
    IF i <= Len(s) /\ s[i] \notin X THEN RunEndNot(s, i + 1, X) ELSE i

RECURSIVE RunEndIn(_, _, _)
\* position after the longest run, from i, of characters of X: regex("[X]*")
RunEndIn(s, i, X) ==
    IF i <= Len(s) /\ s[i] \in X THEN RunEndIn(s, i + 1, X) ELSE i

\* regex("...+"): the run from i up to j, which must not be empty
Run1(s, i, j) == IF j > i THEN Ok(j, SubSeq(s, i, j - 1)) ELSE Fail

\* regex("...*"): the run from i up to j
Run0(s, i, j) == Ok(j, SubSeq(s, i, j - 1))

DigitChars == <<"0", "1", "2", "3", "4", "5", "6", "7", "8", "9">>
Digits == {DigitChars[k] : k \in 1..Len(DigitChars)}
UpperCase ==
    {"A", "B", "C", "D", "E", "F", "G", "H", "I", "J", "K", "L", "M",
     "N", "O", "P", "Q", "R", "S", "T", "U", "V", "W", "X", "Y", "Z"}

DigitVal(c) == (CHOOSE k \in 1..Len(DigitChars) : DigitChars[k] = c) - 1

RECURSIVE ToInt(_)
\* int() of a run of decimal digits
ToInt(ds) ==
    IF ds = <<>> THEN 0
    ELSE 10 * ToInt(SubSeq(ds, 1, Len(ds) - 1)) + DigitVal(ds[Len(ds)])

\* p.map(int)
MapInt(r) == IF r.ok THEN Ok(r.i, ToInt(r.v)) ELSE Fail

\* Parser.parse: the whole input must be consumed, else ParseError
Parse(r, s) == IF r.ok /\ r.i = Len(s) + 1 THEN [ok |-> TRUE, v |-> r.v]
               ELSE [ok |-> FALSE, v |-> <<>>]

----------------------------------------------------------------------------
(* validate_ggg.py: the grammars of URs and SRs *)

\* regex("[^{}>= -]+").map(lambda x: ("seg", x))
form_seg(s, i) ==
    Tagged("seg", Run1(s, i, RunEndNot(s, i, {"{", "}", ">", "=", " ", "-"})))

\* the text matched from i up to the end of the result r
Matched(s, i, r) == IF r.ok THEN Ok(r.i, SubSeq(s, i, r.i - 1)) ELSE Fail

\* regex("[^}>]*") + string("}"), the end of a UR process
ur_proc_target(s, j) == ThenLit(Run0(s, j, RunEndNot(s, j, {"}", ">"})), s, "}")

\* regex("[^}>]*") + string(">") + the rest, r the result of the first regex
ur_proc_rest(s, r) == IF Lit(s, r.i, ">") THEN ur_proc_target(s, r.i + 1) ELSE Fail

\* (string("{") + regex("[^}>]*") + string(">") + regex("[^}>]*") + string("}"))
\*     .map(lambda x: ("proc", x))
ur_proc(s, i) ==
    Tagged("proc",
           Matched(s, i, LitThen(s, i, "{",
               ur_proc_rest(s, Run0(s, i + 1, RunEndNot(s, i + 1, {"}", ">"}))))))

\* (string("{") + regex("[^}]+") + string("}")).map(lambda x: ("proc", x))
sr_proc(s, i) ==
    Tagged("proc",
           Matched(s, i, LitThen(s, i, "{",
               ThenLit(Run1(s, i + 1, RunEndNot(s, i + 1, {"}"})), s, "}"))))

\* ur_proc | form_seg, sr_proc | form_seg
form_item(kind, s, i) ==
    OrElse(IF kind = "ur" THEN ur_proc(s, i) ELSE sr_proc(s, i), form_seg(s, i))

RECURSIVE form_items(_, _, _)
\* the matches of (proc | form_seg).many() after the match r at i
form_items_from(kind, s, i, r) ==
    IF r.ok THEN Prepend(r.v, form_items(kind, s, r.i)) ELSE Ok(i, <<>>)

\* (proc | form_seg).many()
form_items(kind, s, i) == form_items_from(kind, s, i, form_item(kind, s, i))

\* ur_morph_core, sr_morph_core: (proc | form_seg).at_least(1)
morph_core(kind, s, i) == AtLeastOne(form_items(kind, s, i))

----------------------------------------------------------------------------
(* validate_ggg.py: the grammar of glosses *)

\* regex("[^ {}=-]+")
gloss_seg(s, i) == Run1(s, i, RunEndNot(s, i, {" ", "{", "}", "=", "-"}))

\* regex("[0-9A-Z.]+")
proc_name(s, i) == Run1(s, i, RunEndIn(s, i, Digits \cup UpperCase \cup {"."}))

\* regex(r"\d").map(int)
idx(s, i) ==
    IF i <= Len(s) /\ s[i] \in Digits THEN Ok(i + 1, DigitVal(s[i])) ELSE Fail

RECURSIVE more_idxs(_, _)
more_idxs_from(s, i, r) ==
    IF r.ok THEN Prepend(r.v, more_idxs(s, r.i)) ELSE Ok(i, <<>>)

\* (string(",") >> regex(r"\d").map(int)).many()
more_idxs(s, i) == more_idxs_from(s, i, LitThen(s, i, ",", idx(s, i + 1)))

idx_list_from(s, r) == IF r.ok THEN Prepend(r.v, more_idxs(s, r.i)) ELSE Fail

\* regex(r"\d").map(int).sep_by(string(","), min=1)
idx_list(s, i) == idx_list_from(s, idx(s, i))

\* string(";").result("") and the index list and string("}"), x the name
qualified_rest(s, x) ==
    IF x.ok /\ Lit(s, x.i, ";")
    THEN Pair(x.v, ThenLit(idx_list(s, x.i + 1), s, "}"))
    ELSE Fail

gloss_proc_qualified(s, i) ==
    LitThen(s, i, "{", qualified_rest(s, proc_name(s, i + 1)))

\* the index list left empty
Unqualified_no_index(r) == IF r.ok THEN Ok(r.i, <<r.v, <<>>>>) ELSE Fail

\* line 86: .map(lambda x: (x, [-1]))
Unqualified(r) == IF r.ok THEN Ok(r.i, <<r.v, <<-1>>>>) ELSE Fail

gloss_proc_unqualified(s, i) ==
    Unqualified(LitThen(s, i, "{", ThenLit(proc_name(s, i + 1), s, "}")))

gloss_proc(s, i) == OrElse(gloss_proc_qualified(s, i), gloss_proc_unqualified(s, i))

RECURSIVE gloss_procs(_, _)
gloss_procs_from(s, i, r) ==
    IF r.ok THEN Prepend(r.v, gloss_procs(s, r.i)) ELSE Ok(i, <<>>)

\* gloss_proc.many()
gloss_procs(s, i) == gloss_procs_from(s, i, gloss_proc(s, i))

gloss_morph_core_from(s, f) ==
    IF f.ok THEN Pair(f.v, gloss_procs(s, f.i)) ELSE Fail

\* seq(gloss_seg, gloss_proc.many()).map(tuple)
gloss_morph_core(s, i) == gloss_morph_core_from(s, gloss_seg(s, i))

----------------------------------------------------------------------------
(* validate_ggg.py: morphs and lines of the three grammars *)

any_core(kind, s, i) ==
    IF kind = "gl" THEN gloss_morph_core(s, i) ELSE morph_core(kind, s, i)

\* seq(string(mark), core): ur_suffix, ur_enclitic and their SR and gloss forms
marked_before(kind, mark, typ, s, i) ==
    Tagged(typ, LitThen(s, i, mark, any_core(kind, s, i + 1)))

\* seq(core, string(mark)): ur_prefix, ur_proclitic and their SR and gloss forms
marked_after(kind, mark, typ, s, i) ==
    Tagged(typ, ThenLit(any_core(kind, s, i), s, mark))

\* ur_root, sr_root, gloss_morph_root
unmarked(kind, s, i) == Tagged("root", any_core(kind, s, i))

\* ur_morph, sr_morph, gloss_morph: suffix | enclitic | prefix | proclitic | root
any_morph(kind, s, i) ==
    OrElse(marked_before(kind, "-", "suffix", s, i),
    OrElse(marked_before(kind, "=", "enclitic", s, i),
    OrElse(marked_after(kind, "-", "prefix", s, i),
    OrElse(marked_after(kind, "=", "proclitic", s, i),
           unmarked(kind, s, i)))))

RECURSIVE more_morphs(_, _, _)
more_morphs_from(kind, s, i, r) ==
    IF r.ok THEN Prepend(r.v, more_morphs(kind, s, r.i)) ELSE Ok(i, <<>>)

\* the separator left out: the next morph may follow at once
more_morphs_unseparated(kind, s, i) ==
    more_morphs_from(kind, s, i,
        OrElse(LitThen(s, i, " ", any_morph(kind, s, i + 1)), any_morph(kind, s, i)))

\* (string(" ") >> morph).many()
more_morphs(kind, s, i) ==
    more_morphs_from(kind, s, i, LitThen(s, i, " ", any_morph(kind, s, i + 1)))

any_line_from(kind, s, i, first) ==
    IF first.ok THEN Prepend(first.v, more_morphs(kind, s, first.i)) ELSE Ok(i, <<>>)

\* morph.sep_by(string(" "))
any_line(kind, s, i) == any_line_from(kind, s, i, any_morph(kind, s, i))

ur_form(s)    == Parse(any_line("ur", s, 1), s)
sr_form(s)    == Parse(any_line("sr", s, 1), s)
gloss_form(s) == Parse(any_line("gl", s, 1), s)

----------------------------------------------------------------------------
(* ggg2bilou.py: parse_gloss *)

\* feature = regex("[^ {};-]+")
pg_feature(s, i) == Run1(s, i, RunEndNot(s, i, {" ", "{", "}", ";", "-"}))

\* regex(r"\d+").map(int)
pg_number(s, i) == MapInt(Run1(s, i, RunEndIn(s, i, Digits)))

RECURSIVE pg_more_numbers(_, _)
pg_more_numbers_from(s, i, r) ==
    IF r.ok THEN Prepend(r.v, pg_more_numbers(s, r.i)) ELSE Ok(i, <<>>)

\* (string(",") >> regex(r"\d+").map(int)).many()
pg_more_numbers(s, i) ==
    pg_more_numbers_from(s, i, LitThen(s, i, ",", pg_number(s, i + 1)))

pg_numbers_from(s, i, first) ==
    IF first.ok THEN Prepend(first.v, pg_more_numbers(s, first.i)) ELSE Ok(i, <<>>)

\* spans = string(";") >> regex(r"\d+").map(int).sep_by(string(","))
pg_spans(s, i) ==
    LitThen(s, i, ";", pg_numbers_from(s, i + 1, pg_number(s, i + 1)))

\* seq(feature, spans) | seq(feature, success([])), f the result of feature
pg_process_inner_from(s, f) ==
    IF f.ok THEN OrElse(Pair(f.v, pg_spans(s, f.i)), Ok(f.i, <<f.v, <<>>>>)) ELSE Fail

\* process_inner = seq(feature, spans) | seq(feature, success([]))
pg_process_inner(s, i) == pg_process_inner_from(s, pg_feature(s, i))

\* process = string("{") >> process_inner << string("}")
pg_process(s, i) == LitThen(s, i, "{", ThenLit(pg_process_inner(s, i + 1), s, "}"))

RECURSIVE pg_processes(_, _)
pg_processes_from(s, i, r) ==
    IF r.ok THEN Prepend(r.v, pg_processes(s, r.i)) ELSE Ok(i, <<>>)

\* process.many()
pg_processes(s, i) == pg_processes_from(s, i, pg_process(s, i))

pg_morph_from(s, f) == IF f.ok THEN Pair(f.v, pg_processes(s, f.i)) ELSE Fail

\* morph = seq(feature, process.many()); root = morph
pg_morph(s, i) == pg_morph_from(s, pg_feature(s, i))

\* prefix = morph << string("-")
pg_prefix(s, i) == ThenLit(pg_morph(s, i), s, "-")

\* suffix = string("-") >> morph
pg_suffix(s, i) == LitThen(s, i, "-", pg_morph(s, i + 1))

\* suffix | prefix | root
pg_gloss(s, i) == OrElse(pg_suffix(s, i), OrElse(pg_prefix(s, i), pg_morph(s, i)))

RECURSIVE pg_more_glosses(_, _)
pg_more_glosses_from(s, i, r) ==
    IF r.ok THEN Prepend(r.v, pg_more_glosses(s, r.i)) ELSE Ok(i, <<>>)

\* (string(" ") >> (suffix | prefix | root)).many()
pg_more_glosses(s, i) ==
    pg_more_glosses_from(s, i, LitThen(s, i, " ", pg_gloss(s, i + 1)))

pg_glosses_from(s, i, first) ==
    IF first.ok THEN Prepend(first.v, pg_more_glosses(s, first.i)) ELSE Ok(i, <<>>)

\* glosses = (suffix | prefix | root).sep_by(string(" "))
pg_glosses(s, i) == pg_glosses_from(s, i, pg_gloss(s, i))

\* glosses.parse(gloss)
parse_gloss(s) == Parse(pg_glosses(s, 1), s)

----------------------------------------------------------------------------
(* ggg2bilou.py: Character, parse_ur_morph *)

Character(c, tag, op, span, gl_) ==
    [char |-> c, tag |-> tag, op |-> op, span |-> span, gloss |-> gl_]

\* the locals of parse_ur_morph after lines 28-35; num is the next value the
\* generator `morphs` yields (0 was consumed by line 29)
MorphStart ==
    [chars |-> <<>>, num |-> 1, matrix |-> 0, span |-> 0, tag |-> "B",
     op |-> "S", morph_type |-> "root", err |-> FALSE]

Retag(chars, t) == [chars EXCEPT ![Len(chars)].tag = t]

\* case " "
OnSpace(st) ==
    [st EXCEPT !.matrix = st.num, !.span = st.num, !.num = st.num + 1,
               !.tag = "B", !.op = "S"]

\* case "-" (i is the 0-based index, n the length of the morph)
OnHyphen(st, i, n) ==
    IF i = 0 THEN [st EXCEPT !.morph_type = "suffix"]
    ELSE IF i = n - 1 THEN [st EXCEPT !.morph_type = "prefix"]
    ELSE st

\* case "{"
OnOpen(st) == [st EXCEPT !.op = "D"]

\* case ">"
OnArrow(st) ==
    [st EXCEPT !.span = st.num, !.num = st.num + 1, !.tag = "B", !.op = "A"]

\* case "}": chars[-1] on an empty list raises IndexError
OnClose(st) ==
    IF st.chars = <<>> THEN [st EXCEPT !.err = TRUE]
    ELSE LET n  == Len(st.chars)
             c1 == IF Last(st.chars).op = "A"
                   THEN IF n = 0 \/ (n > 1 /\ st.chars[n-1].span # st.span)
                        THEN Retag(st.chars, "U")
                        ELSE Retag(st.chars, "L")
                   ELSE st.chars
         IN [st EXCEPT !.chars = c1, !.span = st.matrix, !.op = "S"]

\* case _
OnGrapheme(st, c) ==
    [st EXCEPT !.chars = Append(st.chars, Character(c, st.tag, st.op, st.span, <<>>)),
               !.tag = IF st.tag = "B" THEN "I" ELSE st.tag]

\* the body of the for loop of line 36
UrMorphStep(st, c, i, n) ==
    CASE c = " " -> OnSpace(st)
      [] c = "-" -> OnHyphen(st, i, n)
      [] c = "{" -> OnOpen(st)
      [] c = ">" -> OnArrow(st)
      [] c = "}" -> OnClose(st)
      [] OTHER   -> OnGrapheme(st, c)

RECURSIVE UrMorphLoop(_, _, _)
UrMorphLoop(st, morph, k) ==
    IF k > Len(morph) \/ st.err THEN st
    ELSE UrMorphLoop(UrMorphStep(st, morph[k], k - 1, Len(morph)), morph, k + 1)

\* lines 67-68: chars[-1].tag = "L" raises IndexError on an empty list
MorphEnd(st) ==
    IF st.err \/ st.chars = <<>>
    THEN [err |-> TRUE, typ |-> st.morph_type, chars |-> <<>>]
    ELSE [err |-> FALSE, typ |-> st.morph_type, chars |-> Retag(st.chars, "L")]

parse_ur_morph(morph) == MorphEnd(UrMorphLoop(MorphStart, morph, 1))

----------------------------------------------------------------------------
(* ggg2bilou.py: parse_ur *)

Boundary == Character(" ", "O", "S", -1, <<>>)

\* the match statement of lines 80-84
MarksBoundary(last, typ) ==
    \/ <<last, typ>> \in {<<"root", "root">>, <<"root", "prefix">>}
    \/ <<last, typ>> \in {<<"suffix", "root">>, <<"suffix", "prefix">>}

\* lines 85-86
Shift(chars, start_span) ==
    [j \in 1..Len(chars) |-> [chars[j] EXCEPT !.span = chars[j].span + start_span]]

MergeIdle ==
    /\ gloss = <<>> /\ gl = <<>> /\ offset = 1 /\ span_glosses = <<>>
    /\ gmi = 0 /\ gpi = 0 /\ si = 0 /\ binds = <<>>

NoSeg == [ur |-> <<>>, sr |-> <<>>, gl |-> <<>>]
NoError == [kind |-> "none", what |-> "none", seg |-> -1, token |-> -1]

ValIdle ==
    /\ seg_id = 0 /\ seg = NoSeg /\ v_ur = <<>> /\ v_sr = <<>> /\ v_gl = <<>>
    /\ token_id = 0 /\ vpc = "idle" /\ error = NoError /\ checks = <<>>

\* no parse made yet
NotParsed == [done |-> FALSE, ok |-> FALSE, v |-> <<>>]

GlossIdle == g_line = <<>> /\ g_val = NotParsed /\ g_bilou = NotParsed

UrStart ==
    /\ parts = <<>> /\ morphs = <<>> /\ mi = 0 /\ matrix_num = 0
    /\ ur_chars = <<>> /\ last_typ = "prefix"
    /\ pc = "parse_ur" /\ outcome = "running"

\* lines 74-76 and the split of line 77
ParseUrBegin ==
    /\ pc = "parse_ur"
    /\ matrix_num' = 0
    /\ ur_chars' = <<>>
    /\ last_typ' = "prefix"
    /\ parts' = Split(ur)
    /\ morphs' = <<>>
    /\ pc' = "morphs"
    /\ mi' = 0
    /\ UNCHANGED <<ur, outcome, entry, mergeVars, valVars, glossVars>>

\* one element of the comprehension of line 77
ParseUrMorph ==
    /\ pc = "morphs"
    /\ LET r == parse_ur_morph(parts[Len(morphs) + 1])
       IN IF r.err
          THEN /\ pc' = "raised"
               /\ outcome' = "IndexError"
               /\ UNCHANGED morphs
          ELSE /\ morphs' = Append(morphs, [typ |-> r.typ, chars |-> r.chars])
               /\ pc' = IF Len(morphs) + 1 = Len(parts) THEN "loop" ELSE "morphs"
               /\ UNCHANGED outcome
    /\ UNCHANGED <<ur, parts, mi, matrix_num, ur_chars, last_typ, entry,
                   mergeVars, valVars, glossVars>>

\* one iteration of the for loop of lines 78-88; the Character objects are
\* shared by morphs and ur_chars, so line 86 changes both
ParseUrLoop ==
    /\ pc = "loop"
    /\ mi < Len(morphs)
    /\ LET m          == morphs[mi + 1]
           start_span == matrix_num
           shifted    == Shift(m.chars, start_span)
       IN /\ matrix_num' = matrix_num + 1
          /\ ur_chars' = ur_chars
                         \o (IF MarksBoundary(last_typ, m.typ) THEN <<Boundary>> ELSE <<>>)
                         \o shifted
          /\ morphs' = [morphs EXCEPT ![mi + 1].chars = shifted]
          /\ last_typ' = m.typ
    /\ mi' = mi + 1
    /\ UNCHANGED <<ur, parts, pc, outcome, entry, mergeVars, valVars, glossVars>>

\* line 89
ParseUrReturn ==
    /\ pc = "loop"
    /\ mi = Len(morphs)
    /\ IF entry = "parse_ur"
       THEN pc' = "done" /\ outcome' = "returned"
       ELSE pc' = "parse_gloss" /\ UNCHANGED outcome
    /\ UNCHANGED <<ur, parts, morphs, mi, matrix_num, ur_chars, last_typ, entry,
                   mergeVars, valVars, glossVars>>

----------------------------------------------------------------------------
(* parse_ur applied to UR lines *)

UrPieces ==
    { <<"a">>, <<"d">>, <<"-">>, <<"=">>, <<" ">>,
      <<"{", ">", "}">>, <<"{", "b", ">", "}">>, <<"{", ">", "c", "}">>,
      <<"{", "b", ">", "c", "}">>, <<"{", "b", ">", "c", "d", "}">> }

UrLines == { Flatten(ps) : ps \in SeqsUpTo(UrPieces, MaxUrPieces) }

InitUr ==
    /\ ur \in UrLines
    /\ entry = "parse_ur"
    /\ UrStart
    /\ MergeIdle /\ ValIdle /\ GlossIdle

NextUr == ParseUrBegin \/ ParseUrMorph \/ ParseUrLoop \/ ParseUrReturn

SpecUr == InitUr /\ [][NextUr]_vars

----------------------------------------------------------------------------
(* Claims about parse_ur_morph and parse_ur, checked under SpecUr *)

RECURSIVE PositionsOutside(_, _, _)
\* the positions p >= from of s with s[p] outside X, in increasing order
PositionsOutside(s, from, X) ==
    IF from > Len(s) THEN <<>>
    ELSE (IF s[from] \notin X THEN <<from>> ELSE <<>>)
         \o PositionsOutside(s, from + 1, X)

PosOf(s, c) == CHOOSE k \in 1..Len(s) : s[k] = c

\* a morph made of literal graphemes around one process {source>target}
IsOneProcessMorph(s) ==
    /\ CountIn(s, {"{"}) = 1 /\ CountIn(s, {">"}) = 1 /\ CountIn(s, {"}"}) = 1
    /\ CountIn(s, {" ", "-", "="}) = 0
    /\ PosOf(s, "{") < PosOf(s, ">") /\ PosOf(s, ">") < PosOf(s, "}")
    /\ Len(s) > 3

InTarget(s, p) == PosOf(s, ">") < p /\ p < PosOf(s, "}")
InSource(s, p) == PosOf(s, "{") < p /\ p < PosOf(s, ">")

ClaimedOp(s, p) ==
    IF InTarget(s, p) THEN "A" ELSE IF InSource(s, p) THEN "D" ELSE "S"

ClaimedSpan(s, p) == IF InTarget(s, p) THEN 1 ELSE 0

ClaimedTag(s, p) ==
    LET gs == PositionsOutside(s, 1, {"{", ">", "}"})
        gt == PosOf(s, ">")
        cb == PosOf(s, "}")
    IN IF p = Last(gs) THEN "L"
       ELSE IF InTarget(s, p)
            THEN IF cb - gt = 2 THEN "U"
                 ELSE IF p = gt + 1 THEN "B"
                 ELSE IF p = cb - 1 THEN "L" ELSE "I"
       ELSE IF p = gs[1] THEN "B" ELSE "I"

ClaimedCharacters(s) ==
    LET gs == PositionsOutside(s, 1, {"{", ">", "}"})
    IN [k \in 1..Len(gs) |->
           Character(s[gs[k]], ClaimedTag(s, gs[k]), ClaimedOp(s, gs[k]),
                     ClaimedSpan(s, gs[k]), <<>>)]

\* C2: for a UR line that is one morph of literal graphemes around one process
\* {source>target}, parse_ur returns one Character per grapheme in input order:
\* op S and the base span outside the braces, op D and the base span for the
\* source, op A and the new span 1 for the target; the first grapheme of the
\* morph (and of a longer target) is B, the following ones I, a one-grapheme
\* target is U, a longer target ends in L, and the last grapheme of the morph
\* is L.
C2_OneProcessMorphCharacters ==
    (pc = "done" /\ IsOneProcessMorph(ur)) => ur_chars = ClaimedCharacters(ur)

\* the case of C2 printed in the specification: "a{b>c}d"
C2_ExampleParsed ==
    /\ pc = "done"
    /\ ur = <<"a", "{", "b", ">", "c", "}", "d">>
    /\ ur_chars = << Character("a", "B", "S", 0, <<>>), Character("b", "I", "D", 0, <<>>),
                     Character("c", "U", "A", 1, <<>>), Character("d", "L", "S", 0, <<>>) >>

\* the allocation a character belongs to: <<m, 0>> for the base span of morph m,
\* <<m, j>> for the target of the j-th ">" of morph m (k is the index of the
\* character in morph m, found in the text of the morph)
AllocationOf(m, k) ==
    LET text == parts[m]
        p    == PositionsOutside(text, 1, {"-", "{", ">", "}"})[k]
    IN IF morphs[m].chars[k].op = "A"
       THEN <<m, CountIn(SubSeq(text, 1, p), {">"})>>
       ELSE <<m, 0>>

\* C3: in the characters parse_ur returns for a line the UR grammar accepts, two characters that belong to
\* different allocations (the base spans of two morphs, the targets of two
\* processes, or a base span and a target) never carry the same span id.
C3_SpanIdsUniquePerAllocation ==
    (pc = "done" /\ ur_form(ur).ok) =>
        \A m1, m2 \in 1..Len(morphs) :
            \A k1 \in 1..Len(morphs[m1].chars), k2 \in 1..Len(morphs[m2].chars) :
                AllocationOf(m1, k1) # AllocationOf(m2, k2)
                    => morphs[m1].chars[k1].span # morphs[m2].chars[k2].span

\* the four transitions that mark a word boundary
BoundaryTransitions ==
    {<<"root", "root">>, <<"root", "prefix">>, <<"suffix", "root">>, <<"suffix", "prefix">>}

RECURSIVE ClaimedLine(_, _, _)
\* the characters of the morphs from the k-th on, a boundary character put
\* before a morph exactly at a boundary transition of the morph types `types`
ClaimedLine(ms, types, k) ==
    IF k > Len(ms) THEN <<>>
    ELSE (IF k > 1 /\ <<types[k-1], types[k]>> \in BoundaryTransitions
          THEN <<Boundary>> ELSE <<>>)
         \o ms[k].chars \o ClaimedLine(ms, types, k + 1)

\* the morph types of a line the UR grammar accepts
GrammarTypes(s) == LET v == ur_form(s).v IN [k \in 1..Len(v) |-> v[k][1]]

\* C9: for a UR line the UR grammar accepts, parse_ur puts the boundary
\* character between two consecutive morphs exactly at the transitions
\* (root,root), (root,prefix), (suffix,root), (suffix,prefix) of their morph
\* types, so a join with a clitic or an affix gets none.
C9_BoundaryExactlyAtWordBreaks ==
    (pc = "done" /\ ur_form(ur).ok /\ Len(ur_form(ur).v) = Len(morphs))
        => ur_chars = ClaimedLine(morphs, GrammarTypes(ur), 1)

\* C10: parse_ur returns normally for every line the UR grammar accepts.
C10_AcceptedLinesParse ==
    ur_form(ur).ok => pc # "raised"

----------------------------------------------------------------------------
(* ggg2bilou.py: merged_form_gloss *)

\* span_glosses[k] = v
Put(d, k, v) == [x \in DOMAIN d \cup {k} |-> IF x = k THEN v ELSE d[x]]

RECURSIVE PutAll(_, _, _, _)
\* lines 129-130: span_glosses[matrix + sp] = ft for sp in spans
PutAll(d, matrix, spans, ft) ==
    IF spans = <<>> THEN d
    ELSE PutAll(Put(d, matrix + Head(spans), ft), matrix, Tail(spans), ft)

Max(a, b) == IF a >= b THEN a ELSE b

RECURSIVE MaxSp(_, _)
\* lines 123, 131: max_sp = offset, then max_sp = max(sp, max_sp) for sp in spans
MaxSp(spans, max_sp) ==
    IF spans = <<>> THEN max_sp ELSE MaxSp(Tail(spans), Max(Head(spans), max_sp))

\* lines 123-132: span_glosses and offset after the process pr of the morph at
\* index matrix
BindProcess(d, off, matrix, pr) ==
    IF pr[2] = <<>>
    THEN [d |-> Put(d, matrix + off, pr[1]), offset |-> off + 1,
          keys |-> {matrix + off}]
    ELSE [d |-> PutAll(d, matrix, pr[2], pr[1]),
          offset |-> Max(MaxSp(pr[2], off) + 1, off + 1),
          keys |-> {matrix + pr[2][k] : k \in 1..Len(pr[2])}]

\* line 117, after parse_ur returned to line 116; lines 118-119
MergeParseGloss ==
    /\ pc = "parse_gloss"
    /\ LET r == parse_gloss(gloss)
       IN IF r.ok
          THEN /\ gl' = r.v
               /\ pc' = "bind"
               /\ UNCHANGED outcome
          ELSE /\ pc' = "raised"
               /\ outcome' = "ParseError"
               /\ UNCHANGED gl
    /\ offset' = 1
    /\ span_glosses' = <<>>
    /\ gmi' = 0
    /\ UNCHANGED <<ur, parts, morphs, mi, matrix_num, ur_chars, last_typ, entry,
                   gloss, gpi, si, binds, valVars, glossVars>>

\* line 121, for the gloss morph at index gmi
BindMorph ==
    /\ pc = "bind"
    /\ gmi < Len(gl)
    /\ span_glosses' = Put(span_glosses, gmi, gl[gmi + 1][1])
    /\ gpi' = 0
    /\ pc' = "procs"
    /\ UNCHANGED <<ur, parts, morphs, mi, matrix_num, ur_chars, last_typ, outcome,
                   entry, gloss, gl, offset, gmi, si, binds, valVars, glossVars>>

\* one iteration of the for loop of line 122
BindProc ==
    /\ pc = "procs"
    /\ gpi < Len(gl[gmi + 1][2])
    /\ LET b == BindProcess(span_glosses, offset, gmi, gl[gmi + 1][2][gpi + 1])
       IN /\ span_glosses' = b.d
          /\ offset' = b.offset
          /\ binds' = Append(binds, [matrix |-> gmi, proc |-> gpi + 1, keys |-> b.keys])
    /\ gpi' = gpi + 1
    /\ UNCHANGED <<urVars, gloss, gl, gmi, si, valVars, glossVars>>

\* the for loop of line 122 ends; next iteration of line 120
BindNextMorph ==
    /\ pc = "procs"
    /\ gpi = Len(gl[gmi + 1][2])
    /\ gmi' = gmi + 1
    /\ pc' = "bind"
    /\ UNCHANGED <<ur, parts, morphs, mi, matrix_num, ur_chars, last_typ, outcome,
                   entry, gloss, gl, offset, span_glosses, gpi, si, binds,
                   valVars, glossVars>>

\* the for loop of line 120 ends
BindEnd ==
    /\ pc = "bind"
    /\ gmi = Len(gl)
    /\ si' = 0
    /\ pc' = "stamp"
    /\ UNCHANGED <<ur, parts, morphs, mi, matrix_num, ur_chars, last_typ, outcome,
                   entry, gloss, gl, offset, span_glosses, gmi, gpi, binds,
                   valVars, glossVars>>

\* line 134: a span that is no key of the dict raises KeyError
Lookup(d, k) == IF k \in DOMAIN d THEN [found |-> TRUE, v |-> d[k]]
                ELSE [found |-> FALSE, v |-> <<>>]

\* one iteration of the for loop of lines 133-134
Stamp ==
    /\ pc = "stamp"
    /\ si < Len(ur_chars)
    /\ LET r == Lookup(span_glosses, ur_chars[si + 1].span)
       IN IF r.found
          THEN /\ ur_chars' = [ur_chars EXCEPT ![si + 1].gloss = r.v]
               /\ si' = si + 1
               /\ UNCHANGED <<pc, outcome>>
          ELSE /\ pc' = "raised"
               /\ outcome' = "KeyError"
               /\ UNCHANGED <<ur_chars, si>>
    /\ UNCHANGED <<ur, parts, morphs, mi, matrix_num, last_typ, entry,
                   gloss, gl, offset, span_glosses, gmi, gpi, binds,
                   valVars, glossVars>>

\* line 135
MergeReturn ==
    /\ pc = "stamp"
    /\ si = Len(ur_chars)
    /\ pc' = "done"
    /\ outcome' = "returned"
    /\ UNCHANGED <<ur, parts, morphs, mi, matrix_num, ur_chars, last_typ, entry,
                   mergeVars, valVars, glossVars>>

----------------------------------------------------------------------------
(* merged_form_gloss applied to a form and a gloss *)

MergeUrMorphs ==
    { <<"a">>, <<"a", "{", "b", ">", "c", "}">>,
      <<"a", "{", "b", ">", "c", "}", "-">>, <<"a", "-">> }

MergeGlossMorphs ==
    { <<"A">>, <<"B", "{", "X", "}">>, <<"D", "{", "Z", "}", "-">>,
      <<"C", "{", "X", "}", "{", "Y", ";", "2", "}">> }

MergeForms ==
    { JoinWith(ms, <<" ">>) : ms \in SeqsUpTo(MergeUrMorphs, MaxMergeMorphs) }

\* the last one is a line parse_gloss rejects
MergeGlosses ==
    { JoinWith(ms, <<" ">>) : ms \in SeqsUpTo(MergeGlossMorphs, MaxMergeMorphs) }
        \cup { <<"A", "-", "B">> }

InitMerge ==
    /\ ur \in MergeForms
    /\ entry = "merged_form_gloss"
    /\ UrStart
    /\ gloss \in MergeGlosses
    /\ gl = <<>> /\ offset = 1 /\ span_glosses = <<>>
    /\ gmi = 0 /\ gpi = 0 /\ si = 0 /\ binds = <<>>
    /\ ValIdle /\ GlossIdle

NextMerge ==
    \/ ParseUrBegin \/ ParseUrMorph \/ ParseUrLoop \/ ParseUrReturn
    \/ MergeParseGloss \/ BindMorph \/ BindProc \/ BindNextMorph \/ BindEnd
    \/ Stamp \/ MergeReturn

SpecMerge == InitMerge /\ [][NextMerge]_vars

----------------------------------------------------------------------------
(* Claims about merged_form_gloss, checked under SpecMerge *)

\* both lines are parsed, they have the same number of morphs, morph m of the
\* UR has as many processes as gloss morph m, all of them unqualified
SameShape ==
    /\ pc \in {"bind", "procs", "stamp", "done"} \/ (pc = "raised" /\ outcome = "KeyError")
    /\ Len(gl) = Len(morphs)
    /\ \A m \in 1..Len(gl) :
          /\ CountIn(parts[m], {">"}) = Len(gl[m][2])
          /\ \A j \in 1..Len(gl[m][2]) : gl[m][2][j][2] = <<>>

\* the feature the gloss line gives to the k-th character of UR morph m
OwnFeature(m, k) ==
    LET a == AllocationOf(m, k)
    IN IF a[2] = 0 THEN gl[m][1] ELSE gl[m][2][a[2]][1]

\* C4: when the UR and the gloss have the same shape, the j-th process of gloss
\* morph m is bound under the span id parse_ur gave to the target graphemes of
\* the j-th process of UR morph m, base span m stays bound to the feature of
\* gloss morph m, and so every grapheme is looked up to the feature of its own
\* process or morph.
C4_BinderAgreesWithSpanNumbering ==
    SameShape =>
        /\ \A b \in 1..Len(binds) :
               \A k \in 1..Len(morphs[binds[b].matrix + 1].chars) :
                   AllocationOf(binds[b].matrix + 1, k)
                           = <<binds[b].matrix + 1, binds[b].proc>>
                       => binds[b].keys = {morphs[binds[b].matrix + 1].chars[k].span}
        /\ pc = "stamp" =>
               \A m \in 1..Len(morphs) :
                   /\ (m - 1) \in DOMAIN span_glosses
                   /\ span_glosses[m - 1] = gl[m][1]
                   /\ \A k \in 1..Len(morphs[m].chars) :
                          /\ morphs[m].chars[k].span \in DOMAIN span_glosses
                          /\ span_glosses[morphs[m].chars[k].span] = OwnFeature(m, k)

\* C5: when merged_form_gloss returns, every character's span is a key of
\* span_glosses and its gloss is the feature bound there; when a character's
\* span is no key, the call ends in a reported BindingError.
C5_UnboundSpanIsBindingError ==
    /\ (pc = "done" /\ entry = "merged_form_gloss") =>
           \A k \in 1..Len(ur_chars) :
               /\ ur_chars[k].span \in DOMAIN span_glosses
               /\ ur_chars[k].gloss = span_glosses[ur_chars[k].span]
    /\ (pc = "raised" /\ outcome \notin {"IndexError", "ParseError"}) =>
           outcome = "BindingError"

\* the processes [("X", []), ("Y", [2])]
ProcsXY2 == << <<<<"X">>, <<>>>>, <<<<"Y">>, <<2>>>> >>

\* C6: after the processes [("X", []), ("Y", [2])] of a gloss morph at any
\* matrix index m, span_glosses[m] is the base feature of the morph,
\* span_glosses[m+1] = "X", span_glosses[m+2] = "Y", and offset is 3.
C6_OffsetAdvancement ==
    (pc = "procs" /\ gl[gmi + 1][2] = ProcsXY2 /\ gpi = Len(ProcsXY2)) =>
        /\ {gmi, gmi + 1, gmi + 2} \subseteq DOMAIN span_glosses
        /\ span_glosses[gmi] = gl[gmi + 1][1]
        /\ span_glosses[gmi + 1] = <<"X">>
        /\ span_glosses[gmi + 2] = <<"Y">>
        /\ offset = 3

RECURSIVE MaxOf(_)
MaxOf(xs) == IF Len(xs) = 1 THEN xs[1] ELSE Max(xs[1], MaxOf(Tail(xs)))

\* the rule of C6 for one process: an unqualified process binds key m + offset
\* and adds 1 to offset; a qualified one binds key m + i for every listed i and
\* sets offset to max(max(indices) + 1, offset + 1)
C6_RuleOfOneProcess ==
    [][ BindProc =>
          LET pr == gl[gmi + 1][2][gpi + 1]
              ks == IF pr[2] = <<>> THEN {gmi + offset}
                    ELSE {gmi + pr[2][k] : k \in 1..Len(pr[2])}
          IN /\ DOMAIN span_glosses' = DOMAIN span_glosses \cup ks
             /\ \A x \in ks : span_glosses'[x] = pr[1]
             /\ \A x \in DOMAIN span_glosses \ ks : span_glosses'[x] = span_glosses[x]
             /\ offset' = IF pr[2] = <<>> THEN offset + 1
                          ELSE Max(MaxOf(pr[2]) + 1, offset + 1) ]_vars

----------------------------------------------------------------------------
(* The two gloss grammars applied to one gloss line *)

Parsed(r) == [done |-> TRUE, ok |-> r.ok, v |-> r.v]

\* validate_ggg.py: gloss.parse(line)
GlossParse ==
    /\ ~g_val.done
    /\ g_val' = Parsed(gloss_form(g_line))
    /\ UNCHANGED <<g_line, g_bilou, urVars, mergeVars, valVars>>

\* ggg2bilou.py: parse_gloss(line)
ParseGloss ==
    /\ ~g_bilou.done
    /\ g_bilou' = Parsed(parse_gloss(g_line))
    /\ UNCHANGED <<g_line, g_val, urVars, mergeVars, valVars>>

GlossPieces ==
    { <<"u", "n">>, <<"d", "o">>, <<"-">>, <<" ">>, <<"{", "X", "}">> }

GlossLines == { Flatten(ps) : ps \in SeqsUpTo(GlossPieces, MaxGlossPieces) }

UrIdle ==
    /\ ur = <<>> /\ entry = "none" /\ parts = <<>> /\ morphs = <<>> /\ mi = 0
    /\ matrix_num = 0 /\ ur_chars = <<>> /\ last_typ = "prefix"
    /\ pc = "idle" /\ outcome = "running"

InitGloss ==
    /\ g_line \in GlossLines
    /\ g_val = NotParsed
    /\ g_bilou = NotParsed
    /\ UrIdle /\ MergeIdle /\ ValIdle

NextGloss == GlossParse \/ ParseGloss

SpecGloss == InitGloss /\ [][NextGloss]_vars

UnDo      == <<"u", "n", "-", "d", "o">>
UnSpaceDo == <<"u", "n", "-", " ", "d", "o">>
PrefixUnRootDo ==
    << <<"prefix", << <<"u", "n">>, <<>> >> >>, <<"root", << <<"d", "o">>, <<>> >> >> >>

\* C7 as stated: the gloss grammar parses "un-do" into the two morphs
\* [(prefix, ("un", [])), (root, ("do", []))].
C7_UnDoParses ==
    (g_line = UnDo /\ g_val.done) => (g_val.ok /\ g_val.v = PrefixUnRootDo)

\* C7 as amended: the gloss grammars parse "un- do", the prefix and the root
\* separated by a space, into the two morphs [(prefix, ("un", [])),
\* (root, ("do", []))] (parse_gloss: the same two morphs without their types),
\* and they reject "un-do".
C7_UnSpaceDoParses ==
    /\ (g_line = UnSpaceDo /\ g_val.done) => (g_val.ok /\ g_val.v = PrefixUnRootDo)
    /\ (g_line = UnSpaceDo /\ g_bilou.done) =>
           /\ g_bilou.ok
           /\ g_bilou.v = << << <<"u", "n">>, <<>> >>, << <<"d", "o">>, <<>> >> >>
    /\ (g_line = UnDo /\ g_val.done) => ~g_val.ok
    /\ (g_line = UnDo /\ g_bilou.done) => ~g_bilou.ok

\* both grammars have parsed "un- do"
C7_UnSpaceDoParsed ==
    g_line = UnSpaceDo /\ g_val.done /\ g_val.ok /\ g_bilou.done /\ g_bilou.ok

----------------------------------------------------------------------------
(* The lines of the records given to validate_segs *)

ValUrMorphs ==
    { <<"c", "a", "t">>, <<"c", "{", "a", ">", "o", "}", "t">> }

ValSrMorphs ==
    { <<"c", "a", "t">>, <<"c", "{", "o", "}", "t">> }

ValGlMorphs ==
    { <<"c", "a", "t", "{", "N", "O", "U", "N", "}">>,
      <<"c", "a", "t", "{", "A", "B", "L", "A", "U", "T", ";", "1", "}">>,
      <<"c", "a", "t", "{", "P", "L", ";", "1", ",", "2", "}">> }

\* the last line of each set is one its grammar rejects; the UR lines have
\* one more, whose second morph is a prefix
ValUrLines ==
    { JoinWith(ms, <<" ">>) : ms \in SeqsUpTo(ValUrMorphs, MaxTokens) }
        \cup { <<"c", "{", "a", ">", "o", "}", "t", " ", "u", "n", "-">> }
        \cup { <<"c", "{", "a">> }

ValSrLines ==
    { JoinWith(ms, <<" ">>) : ms \in SeqsUpTo(ValSrMorphs, MaxTokens) }
        \cup { <<"c", "{", "}">> }

ValGlLines ==
    { JoinWith(ms, <<" ">>) : ms \in SeqsUpTo(ValGlMorphs, MaxTokens) }
        \cup { <<"u", "n", "-", "d", "o">> }

----------------------------------------------------------------------------
(* validate_ggg.py: validate_procs, validate_segs *)

RECURSIVE num_form_procs(_)
\* sum([1 for (t, _) in form if t == "proc"])
num_form_procs(form) ==
    IF form = <<>> THEN 0
    ELSE (IF Head(form)[1] = "proc" THEN 1 ELSE 0) + num_form_procs(Tail(form))

RECURSIVE num_gloss_procs(_)
\* lines 146-148: num_gloss_procs += len(idxs) for every process
num_gloss_procs(g_procs) ==
    IF g_procs = <<>> THEN 0
    ELSE Len(Head(g_procs)[2]) + num_gloss_procs(Tail(g_procs))

\* line 154: TRUE when the assertion holds, FALSE when AlignmentError is raised
validate_procs(u, s, g) ==
    /\ num_form_procs(u) = num_form_procs(s)
    /\ num_form_procs(s) = num_gloss_procs(g[2])

\* the comparison left out
TypesAgree_unchecked(u_type, s_type, g_type) == TRUE

\* line 184
TypesAgree(u_type, s_type, g_type) == u_type = s_type /\ s_type = g_type

\* line 180
LengthsAgree(u, s, g) == Len(u) = Len(s) /\ Len(s) = Len(g)

Check(name, token) == [check |-> name, token |-> token]

Raise(kind, what, token) ==
    [kind |-> kind, what |-> what, seg |-> seg_id, token |-> token]

\* lines 168-171, 172-175, 176-179: one of the three parses of the record
ParseLine(what, r, next) ==
    /\ checks' = Append(checks, Check(what, -1))
    /\ IF r.ok
       THEN /\ vpc' = next
            /\ UNCHANGED error
       ELSE /\ vpc' = "raised"
            /\ error' = Raise("StructureError", what, -1)

\* line 167: the next record of the document; the locals ur, sr, gl and
\* token_id of the record before are assigned again before they are read, and
\* are cleared here
NextSeg ==
    /\ vpc \in {"start", "next_seg"}
    /\ (IF vpc = "start" THEN 0 ELSE seg_id + 1) < MaxSegs
    /\ seg_id' = IF vpc = "start" THEN 0 ELSE seg_id + 1
    /\ seg' \in [ur : ValUrLines, sr : ValSrLines, gl : ValGlLines]
    /\ checks' = <<>>
    /\ v_ur' = <<>> /\ v_sr' = <<>> /\ v_gl' = <<>> /\ token_id' = 0
    /\ vpc' = "parse_ur"
    /\ UNCHANGED <<error, urVars, mergeVars, glossVars>>

\* line 167: the document has no more records, validate_segs returns
EndOfSegs ==
    /\ vpc \in {"start", "next_seg"}
    /\ vpc' = "returned"
    /\ UNCHANGED <<seg_id, seg, v_ur, v_sr, v_gl, token_id, error, checks,
                   urVars, mergeVars, glossVars>>

\* lines 168-171
ValParseUr ==
    /\ vpc = "parse_ur"
    /\ ParseLine("ur", ur_form(seg.ur), "parse_sr")
    /\ v_ur' = ur_form(seg.ur).v
    /\ UNCHANGED <<seg_id, seg, v_sr, v_gl, token_id, urVars, mergeVars, glossVars>>

\* lines 172-175
ValParseSr ==
    /\ vpc = "parse_sr"
    /\ ParseLine("sr", sr_form(seg.sr), "parse_gl")
    /\ v_sr' = sr_form(seg.sr).v
    /\ UNCHANGED <<seg_id, seg, v_ur, v_gl, token_id, urVars, mergeVars, glossVars>>

\* lines 176-179
ValParseGl ==
    /\ vpc = "parse_gl"
    /\ ParseLine("gl", gloss_form(seg.gl), "lengths")
    /\ v_gl' = gloss_form(seg.gl).v
    /\ UNCHANGED <<seg_id, seg, v_ur, v_sr, token_id, urVars, mergeVars, glossVars>>

\* lines 180-182 and 198-199
CheckLengths ==
    /\ vpc = "lengths"
    /\ checks' = Append(checks, Check("len", -1))
    /\ IF LengthsAgree(v_ur, v_sr, v_gl)
       THEN /\ vpc' = IF Len(v_ur) = 0 THEN "next_seg" ELSE "types"
            /\ UNCHANGED error
       ELSE /\ vpc' = "raised"
            /\ error' = Raise("AlignmentError", "len", -1)
    /\ token_id' = 0
    /\ UNCHANGED <<seg_id, seg, v_ur, v_sr, v_gl, urVars, mergeVars, glossVars>>

\* lines 183-189, for the token at token_id
CheckTypes ==
    /\ vpc = "types"
    /\ checks' = Append(checks, Check("type", token_id))
    /\ IF TypesAgree(v_ur[token_id + 1][1], v_sr[token_id + 1][1], v_gl[token_id + 1][1])
       THEN /\ vpc' = "procs"
            /\ UNCHANGED error
       ELSE /\ vpc' = "raised"
            /\ error' = Raise("AlignmentError", "type", -1)
    /\ UNCHANGED <<seg_id, seg, v_ur, v_sr, v_gl, token_id, urVars, mergeVars, glossVars>>

\* lines 190-197, for the token at token_id; then the next token, or the next
\* record after the last one
CheckProcs ==
    /\ vpc = "procs"
    /\ checks' = Append(checks, Check("procs", token_id))
    /\ IF validate_procs(v_ur[token_id + 1][2], v_sr[token_id + 1][2], v_gl[token_id + 1][2])
       THEN /\ vpc' = IF token_id + 1 = Len(v_ur) THEN "next_seg" ELSE "types"
            /\ token_id' = token_id + 1
            /\ UNCHANGED error
       ELSE /\ vpc' = "raised"
            /\ error' = Raise("AlignmentError", "procs", token_id)
            /\ UNCHANGED token_id
    /\ UNCHANGED <<seg_id, seg, v_ur, v_sr, v_gl, urVars, mergeVars, glossVars>>

InitValidate ==
    /\ seg_id = 0 /\ seg = NoSeg /\ v_ur = <<>> /\ v_sr = <<>> /\ v_gl = <<>>
    /\ token_id = 0 /\ vpc = "start" /\ error = NoError /\ checks = <<>>
    /\ UrIdle /\ MergeIdle /\ GlossIdle

NextValidate ==
    \/ NextSeg \/ EndOfSegs
    \/ ValParseUr \/ ValParseSr \/ ValParseGl
    \/ CheckLengths \/ CheckTypes \/ CheckProcs

SpecValidate == InitValidate /\ [][NextValidate]_vars

----------------------------------------------------------------------------
(* what the documentation says of validate_procs and validate_segs, stated
   on the text of the record *)

\* the morphs of a line, as text
TokensOf(line) == IF line = <<>> THEN <<>> ELSE Split(line)

\* number of processes written in a UR or SR morph
ClaimedFormCount(text) == CountIn(text, {"{"})

RECURSIVE ClaimedGlossCount(_)
\* {FEATURE} counts 1, {FEATURE;i,j,...} counts its number of indices
ClaimedGlossCount(text) ==
    IF text = <<>> THEN 0
    ELSE IF Head(text) # "{" THEN ClaimedGlossCount(Tail(text))
    ELSE LET close == CHOOSE k \in 1..Len(text) :
                          text[k] = "}" /\ \A j \in 1..(k-1) : text[j] # "}"
             body  == SubSeq(text, 2, close - 1)
             n     == IF \E k \in 1..Len(body) : body[k] = ";"
                      THEN CountIn(body, {","}) + 1
                      ELSE 1
         IN n + ClaimedGlossCount(SubSeq(text, close + 1, Len(text)))

\* the three counts of token t (from 0) of the record are equal
ClaimedCountsEqual(t) ==
    LET u == ClaimedFormCount(TokensOf(seg.ur)[t + 1])
        s == ClaimedFormCount(TokensOf(seg.sr)[t + 1])
        g == ClaimedGlossCount(TokensOf(seg.gl)[t + 1])
    IN u = s /\ s = g

\* C1: validate_procs accepts a token if and only if the number of processes
\* of its UR morph, the number of processes of its SR morph and the number of
\* indices of its gloss processes (1 for an unqualified process) are all
\* equal, and raises AlignmentError otherwise.
C1_ProcsAcceptedIffCountsEqual ==
    (checks # <<>> /\ Last(checks).check = "procs") =>
        IF ClaimedCountsEqual(Last(checks).token)
        THEN error = NoError
        ELSE /\ error.kind = "AlignmentError"
             /\ error.what = "procs"
             /\ error.token = Last(checks).token

ExamplePass ==
    [ur |-> <<"c", "{", "a", ">", "o", "}", "t">>,
     sr |-> <<"c", "{", "o", "}", "t">>,
     gl |-> <<"c", "a", "t", "{", "A", "B", "L", "A", "U", "T", ";", "1", "}">>]

ExampleFail ==
    [ur |-> <<"c", "a", "t">>,
     sr |-> <<"c", "a", "t">>,
     gl |-> <<"c", "a", "t", "{", "N", "O", "U", "N", "}">>]

\* the record whose first token is c{a>o}t / c{o}t / cat{ABLAUT;1} and whose
\* second token is cat / cat / cat{NOUN}: the first was accepted, the second
\* raised
C1_PassThenFail ==
    /\ seg = [f \in {"ur", "sr", "gl"} |->
                 ExamplePass[f] \o <<" ">> \o ExampleFail[f]]
    /\ Len(checks) = 8
    /\ checks[6] = Check("procs", 0)
    /\ checks[8] = Check("procs", 1)
    /\ vpc = "raised"
    /\ error.kind = "AlignmentError" /\ error.what = "procs" /\ error.token = 1

\* the k-th check of a record in the documented order: the three parses, the
\* lengths, then type and process count of token 0, of token 1, ...
OrderAt(k) ==
    CASE k = 1 -> Check("ur", -1)
      [] k = 2 -> Check("sr", -1)
      [] k = 3 -> Check("gl", -1)
      [] k = 4 -> Check("len", -1)
      [] OTHER -> Check(IF (k - 5) % 2 = 0 THEN "type" ELSE "procs", (k - 5) \div 2)

\* the type a morph is written with
ClaimedType(text) ==
    IF Head(text) = "-" THEN "suffix"
    ELSE IF Head(text) = "=" THEN "enclitic"
    ELSE IF Last(text) = "-" THEN "prefix"
    ELSE IF Last(text) = "=" THEN "proclitic"
    ELSE "root"

ClaimedFails(c) ==
    CASE c.check = "ur"    -> ~ur_form(seg.ur).ok
      [] c.check = "sr"    -> ~sr_form(seg.sr).ok
      [] c.check = "gl"    -> ~gloss_form(seg.gl).ok
      [] c.check = "len"   ->
            ~(/\ Len(TokensOf(seg.ur)) = Len(TokensOf(seg.sr))
              /\ Len(TokensOf(seg.sr)) = Len(TokensOf(seg.gl)))
      [] c.check = "type"  ->
            ~(/\ ClaimedType(TokensOf(seg.ur)[c.token + 1])
                    = ClaimedType(TokensOf(seg.sr)[c.token + 1])
              /\ ClaimedType(TokensOf(seg.sr)[c.token + 1])
                    = ClaimedType(TokensOf(seg.gl)[c.token + 1]))
      [] c.check = "procs" -> ~ClaimedCountsEqual(c.token)

ClaimedError(c) ==
    IF c.check \in {"ur", "sr", "gl"}
    THEN [kind |-> "StructureError", what |-> c.check, seg |-> seg_id, token |-> -1]
    ELSE [kind |-> "AlignmentError", what |-> c.check, seg |-> seg_id,
          token |-> IF c.check = "procs" THEN c.token ELSE -1]

\* C8: the checks of a record are made in the documented order; every check
\* before the last one made has passed; the last one made raises its own
\* error when it fails, after which nothing more is evaluated, and raises
\* nothing when it passes; a record that is left without an error has had
\* every check of every token made.
C8_FirstFailingCheckRaises ==
    /\ \A k \in 1..Len(checks) : checks[k] = OrderAt(k)
    /\ \A k \in 1..(Len(checks) - 1) : ~ClaimedFails(checks[k])
    /\ checks # <<>> =>
          IF ClaimedFails(Last(checks))
          THEN vpc = "raised" /\ error = ClaimedError(Last(checks))
          ELSE vpc # "raised" /\ error = NoError
    /\ checks = <<>> => error = NoError
    /\ (vpc \in {"next_seg", "returned"} /\ checks # <<>>) =>
          Len(checks) = 4 + 2 * Len(TokensOf(seg.ur))

\* the second record of a document fails the type check of its second token,
\* after its first token passed both of its checks
C8_SecondTokenTypeRaised ==
    /\ seg_id = 1
    /\ vpc = "raised"
    /\ Len(checks) = 7
    /\ error = [kind |-> "AlignmentError", what |-> "type", seg |-> 1, token |-> -1]

====
